---- MODULE Spec2Model ----
(***************************************************************************)
(* A state-machine model of the inode table and the FUSE low-level         *)
(* callbacks of fuse-cpp-ramfs (src/src/fuse_cpp_ramfs.cpp).               *)
(*                                                                         *)
(* The table FuseRamFs::Inodes is a sequence; slot number i is kept at     *)
(* index i+1 (Get/Put).  The Inode, Directory and File classes are         *)
(* declared in headers that are not part of src/; their methods are        *)
(* modelled from the specification text and are marked so below.           *)
(***************************************************************************)
EXTENDS Integers, Sequences, FiniteSets, TLC

\* ------------------------------------------------------------- bounds
MaxCalls == 3           \* callbacks delivered after init
MaxFileSize == 1        \* offsets written and read are below MaxFileSize
kTotalBlocks == 2       \* m_stbuf.f_blocks of the model
kTotalInodes == 8       \* m_stbuf.f_files of the model
MaxLinkCalls == 4       \* callbacks delivered after init in SpecLinks
MaxSlotCalls == 7        \* callbacks in a run of SpecSlots
MaxZeroCalls == 5        \* callbacks in a run of SpecZero
MaxRegCalls == 3         \* callbacks before the concurrent pair in SpecReg
MaxDirCalls == 4         \* callbacks in a run of SpecDirs
MaxReadDirCalls == 6    \* readdir calls of one enumeration
MaxReadDirSize == 3     \* largest size argument of readdir, in directory entries
kReadDirBufSize == 3    \* largest reply buffer, in directory entries
kReadDirEntriesPerResponse == 2
NlinkBits == 8          \* width of nlink_t in the model (unsigned wrap-around)

\* ---------------------------------------------------- program constants
BufBlockSize == 4096
INO_NOTFOUND == -1

NlinkModulus == 2 ^ NlinkBits

\* Names the kernel passes in a request; "." and ".." reach only lookup
Names == {"a", "b"}

LookupNames == Names \cup {".", ".."}
Bytes == {"X"}
Modes == {"S_IFREG", "S_IFDIR", "S_IFIFO"}

NoIno == INO_NOTFOUND - 1
VARIABLES Inodes, DeletedInodes, m_stbuf, crashed, ncalls, pending, iterators, reader

vars == <<Inodes, DeletedInodes, m_stbuf, crashed, ncalls, pending, iterators, reader>>

\* ------------------------------------------------------------ the table
NULL == [type |-> "NULL"]

IsNull(x) == x.type = "NULL"

Get(I, ino) == I[ino + 1]

Put(I, ino, x) == [I EXCEPT ![ino + 1] = x]

Size(I) == Len(I)

EmptyMap == [n \in {} |-> 0]

MapPut(m, k, v) == [x \in (DOMAIN m) \cup {k} |-> IF x = k THEN v ELSE m[x]]

MapRemove(m, k) == [x \in (DOMAIN m) \ {k} |-> m[x]]

NewInode(type) ==
    [type |-> type, nlink |-> 0, nlookup |-> 0, children |-> EmptyMap, data |-> <<>>]

\* dynamic_cast<Directory *>(p) != NULL ; a null pointer casts to NULL
IsDirectory(x) == x.type = "Directory"

IsFile(x) == x.type = "File"

\* ------------------------------------------- Inode / Directory / File methods
HasNoLinks(x) == x.nlink = 0

Forgotten(x) == x.nlookup = 0

AddHardLink(x) == [x EXCEPT !.nlink = (@ + 1) % NlinkModulus]

RemoveHardLink(x) == [x EXCEPT !.nlink = (@ - 1) % NlinkModulus]

Forget(x, n) == [x EXCEPT !.nlookup = @ - n]

Initialize(x, nlink) == [x EXCEPT !.nlink = nlink, !.nlookup = 0]

ChildInodeNumberWithName(dir, name) ==
    IF name \in DOMAIN dir.children THEN dir.children[name] ELSE INO_NOTFOUND

\* AddChild on a name that is already present: the caller is meant to ensure
\* absence, so both outcomes (keep the old binding, overwrite it) are modelled;
\* ow chooses between them.
AddChild(dir, name, ino, ow) ==
    IF name \in DOMAIN dir.children /\ ~ow
    THEN dir
    ELSE [dir EXCEPT !.children = MapPut(@, name, ino)]

UpdateChild(dir, name, ino) == [dir EXCEPT !.children = MapPut(@, name, ino)]

RemoveChild(dir, name) == [dir EXCEPT !.children = MapRemove(@, name)]

Children(dir) == dir.children

CeilDiv(a, b) == (a + b - 1) \div b

UsedBlocks(x) == IF IsFile(x) THEN CeilDiv(Len(x.data), BufBlockSize) ELSE 0

\* ReplyEntry / ReplyCreate: the entry reply raises the lookup count by one
ReplyEntry(I, ino) == Put(I, ino, [Get(I, ino) EXCEPT !.nlookup = @ + 1])

UpdateUsedBlocks(S, n) == [S EXCEPT !.f_bfree = @ - n]

UpdateUsedInodes(S, n) == [S EXCEPT !.f_ffree = @ - n]

\* -------------------------------------------------------- RegisterInode
\* A registration that reuses the number released last
RegisterInode_LastReleased(I, D, S, node, nlink) ==
    LET x == Initialize(node, nlink) IN
    IF D = <<>>
    THEN [ino |-> Len(I),
          inodes |-> Append(I, x),
          deleted |-> D,
          stbuf |-> UpdateUsedBlocks(UpdateUsedInodes(S, 1), UsedBlocks(x))]
    ELSE [ino |-> D[Len(D)],
          inodes |-> Put(I, D[Len(D)], x),
          deleted |-> SubSeq(D, 1, Len(D) - 1),
          stbuf |-> UpdateUsedBlocks(S, UsedBlocks(x))]

RegisterInode(I, D, S, node, nlink) ==
    LET x == Initialize(node, nlink) IN
    IF D = <<>>
    THEN [ino |-> Len(I),
          inodes |-> Append(I, x),
          deleted |-> D,
          stbuf |-> UpdateUsedBlocks(UpdateUsedInodes(S, 1), UsedBlocks(x))]
    ELSE [ino |-> Head(D),
          inodes |-> Put(I, Head(D), x),
          deleted |-> Tail(D),
          stbuf |-> UpdateUsedBlocks(S, UsedBlocks(x))]

\* ------------------------------------------------------ callback results
\* A callback's result: the new table, queue and counters, the replies sent on
\* the request handle in order, the inode number of an entry reply, the bytes
\* of a buffer reply, and whether undefined behaviour was executed
\* ("segv": a null pointer was dereferenced; "uaf": a freed request was used).
Result(I, D, S, replies, entry, buf, ub) ==
    [inodes |-> I, deleted |-> D, stbuf |-> S, replies |-> replies,
     entry |-> entry, buf |-> buf, ub |-> ub]

Fail(e) == Result(Inodes, DeletedInodes, m_stbuf, <<e>>, NoIno, <<>>, "none")

Done(I) == Result(I, DeletedInodes, m_stbuf, <<"OK">>, NoIno, <<>>, "none")

Entry(I, D, S, ino) == Result(I, D, S, <<"OK">>, ino, <<>>, "none")

Dead(x) == IsNull(x) \/ HasNoLinks(x)

\* What a read of Inodes[ino] past the end of the vector can yield: a fault, a
\* null pointer, or a pointer on which the calls that follow happen to succeed
OutOfRangeReads == {"segv", "null", "live"}

Replies(rs) == Result(Inodes, DeletedInodes, m_stbuf, rs, NoIno, <<>>, "none")

Crash(rs) == Result(Inodes, DeletedInodes, m_stbuf, rs, NoIno, <<>>, "segv")

\* ------------------------------------------------------------ FuseInit
FuseInitResult ==
    LET S0 == [m_stbuf EXCEPT !.f_bfree = kTotalBlocks, !.f_ffree = kTotalInodes]
        r0 == RegisterInode(Inodes, DeletedInodes, S0, NewInode("Special"), 0)
        r1 == RegisterInode(r0.inodes, r0.deleted, r0.stbuf, NewInode("Directory"), 3)
        root0 == Get(r1.inodes, r1.ino)
        root1 == AddChild(root0, ".", r1.ino, TRUE)
        root2 == AddChild(root1, "..", r1.ino, TRUE)
    IN Result(Put(r1.inodes, r1.ino, root2), r1.deleted, r1.stbuf, <<>>, NoIno, <<>>, "none")

\* ---------------------------------------------------------- FuseLookup
FuseLookup(parent, name) ==
    IF parent >= Size(Inodes) THEN Fail("ENOENT")
    ELSE IF ~IsDirectory(Get(Inodes, parent)) THEN Fail("ENOTDIR")
    ELSE LET ino == ChildInodeNumberWithName(Get(Inodes, parent), name) IN
         IF ino = INO_NOTFOUND THEN Fail("ENOENT")
         ELSE IF Dead(Get(Inodes, ino)) THEN Fail("ENOENT")
         ELSE Entry(ReplyEntry(Inodes, ino), DeletedInodes, m_stbuf, ino)

\* --------------------------------------------------------- FuseReadDir
\* Children() is a map<string, fuse_ino_t>: it is walked in the order of the names
NameRank(n) == IF n = "." THEN 1 ELSE IF n = ".." THEN 2 ELSE IF n = "a" THEN 3 ELSE 4

\* begin(): the first name, or end() in an empty map
BeginKey(keys) ==
    IF keys = {} THEN "end"
    ELSE CHOOSE k \in keys : \A j \in keys : NameRank(k) <= NameRank(j)

\* ++iterator
NextKey(keys, at) ==
    LET after == {k \in keys : NameRank(k) > NameRank(at)} IN BeginKey(after)

\* --iterator; stepping back from begin() leaves no valid iterator
PrevKey(keys, at) ==
    LET before == IF at = "end" THEN keys
                  ELSE {k \in keys : NameRank(k) < NameRank(at)}
    IN IF before = {} THEN "dangling"
       ELSE CHOOSE k \in before : \A j \in before : NameRank(k) >= NameRank(j)

Min(a, b) == IF a < b THEN a ELSE b

\* lines 424-460: the loop that fills the buffer.  The result is where the
\* iterator is left, the names put in the buffer, whether the response was cut
\* short by the buffer, and whether the loop spins on a null child.
RECURSIVE ReadDirLoop(_, _, _, _, _)
ReadDirLoop(children, at, entriesAdded, buf, bufSize) ==
    IF ~(entriesAdded < kReadDirEntriesPerResponse /\ at # "end")
    THEN [at |-> at, buf |-> buf, cut |-> FALSE, hang |-> FALSE]
    ELSE IF children[at] >= Size(Inodes) \/ IsNull(Get(Inodes, children[at]))
    THEN [at |-> at, buf |-> buf, cut |-> FALSE, hang |-> TRUE]
    ELSE IF Len(buf) + 1 > bufSize
    THEN [at |-> PrevKey(DOMAIN children, at), buf |-> buf, cut |-> TRUE, hang |-> FALSE]
    ELSE ReadDirLoop(children, NextKey(DOMAIN children, at), entriesAdded + 1,
                     Append(buf, at), bufSize)

ReadDirResult(replies, buf, its, cookie, cut, ub) ==
    [replies |-> replies, buf |-> buf, iterators |-> its, cookie |-> cookie,
     cut |-> cut, ub |-> ub]

ReadDirFail(e) == ReadDirResult(<<e>>, <<>>, iterators, 0, FALSE, "none")

\* off is 0 or a cookie returned before (the index of a heap iterator); resume is
\* what the use of an invalidated iterator yields: a fault, or some position
FuseReadDir(ino, size, off, resume) ==
    IF ino >= Size(Inodes) THEN ReadDirFail("ENOENT")
    ELSE IF Dead(Get(Inodes, ino)) THEN ReadDirFail("ENOENT")
    ELSE IF ~IsDirectory(Get(Inodes, ino)) THEN ReadDirFail("ENOTDIR")
    ELSE LET children == Children(Get(Inodes, ino))
             keys == DOMAIN children
             invalid == off # 0 /\ iterators[off].at = "dangling"
         IN
         IF invalid /\ resume = "segv"
         THEN ReadDirResult(<<>>, <<>>, iterators, off, FALSE, "segv")
         ELSE LET at0 == IF off = 0 THEN BeginKey(keys)
                         ELSE IF invalid THEN resume
                         ELSE iterators[off].at
              IN
              IF off # 0 /\ at0 = "end"
              THEN ReadDirResult(<<"OK">>, <<>>, iterators, off, FALSE, "none")
              ELSE LET bufSize == Min(kReadDirBufSize, size)
                       cookie == IF off = 0 THEN Len(iterators) + 1 ELSE off
                       its0 == IF off = 0
                               THEN Append(iterators, [dir |-> ino, at |-> at0])
                               ELSE iterators
                       l == ReadDirLoop(children, at0, 0, <<>>, bufSize)
                       its1 == [its0 EXCEPT ![cookie].at = l.at]
                   IN IF l.hang
                      THEN ReadDirResult(<<>>, <<>>, its1, cookie, FALSE, "segv")
                      ELSE ReadDirResult(<<"OK">>, l.buf, its1, cookie, l.cut, "none")

\* The names of directory ino in table I; none if ino is not a directory there
DirKeys(I, ino) ==
    IF ino >= 0 /\ ino < Len(I) /\ IsDirectory(Get(I, ino))
    THEN DOMAIN Children(Get(I, ino)) ELSE {}

\* An iterator on a name that is erased from its map is invalidated
Invalidate(its, I) ==
    [c \in DOMAIN its |->
        IF its[c].at \in {"end", "dangling"} THEN its[c]
        ELSE IF its[c].at \in DirKeys(I, its[c].dir) THEN its[c]
        ELSE [its[c] EXCEPT !.at = "dangling"]]

\* The caller of readdir: the directory it enumerates, the cookie it passes
\* next, the names it was given, and what happened to the directory meanwhile
NoReader == [ino |-> NoIno]

Observe(rd, I) ==
    IF rd = NoReader THEN rd
    ELSE LET now == DirKeys(I, rd.ino) IN
         [rd EXCEPT !.always = rd.always \cap now,
                    !.mutated = rd.mutated \/ now # rd.first]

\* --------------------------------------------------------- FuseGetAttr
\* lines 227-229 reply ENOENT and fall through to the read of Inodes[ino]
FuseGetAttr(ino, oob) ==
    IF ino >= Size(Inodes)
    THEN IF oob = "segv" THEN Crash(<<"ENOENT">>)
         ELSE IF oob = "null" THEN Replies(<<"ENOENT", "ENOENT">>)
         ELSE Replies(<<"ENOENT", "OK">>)
    ELSE IF Dead(Get(Inodes, ino)) THEN Fail("ENOENT")
    ELSE Replies(<<"OK">>)

\* --------------------------------------------------------- FuseSetAttr
\* The attributes set are those the table does not depend on (mode, owner,
\* times); lines 255-257 fall through as in FuseGetAttr
FuseSetAttr(ino, oob) ==
    IF ino >= Size(Inodes)
    THEN IF oob = "segv" THEN Crash(<<"ENOENT">>)
         ELSE IF oob = "null" THEN Replies(<<"ENOENT", "ENOENT">>)
         ELSE Replies(<<"ENOENT", "OK">>)
    ELSE IF Dead(Get(Inodes, ino)) THEN Fail("ENOENT")
    ELSE Replies(<<"OK">>)

\* --------------------------------------------------------- FuseGetLock
\* lines 1264-1268: the reply is commented out
FuseGetLock(ino) ==
    IF ino >= Size(Inodes) THEN Fail("ENOENT")
    ELSE Replies(<<>>)

\* ---------------------------------------------------------- FuseForget
\* A forget that releases the inode without looking at its hard links
ForgetReleases_NoLinkTest(x) == Forgotten(x)

\* lines 811-813: the inode is deleted when it is forgotten and has no links
ForgetReleases(x) == Forgotten(x) /\ HasNoLinks(x)

\* A forget that queues the number of a slot that is already empty
FuseForget_NoNullTest(ino, nlookup) ==
    LET x == Get(Inodes, ino) IN
    IF IsNull(x)
    THEN Result(Inodes, Append(DeletedInodes, ino), m_stbuf, <<>>, NoIno, <<>>, "none")
    ELSE LET y == Forget(x, nlookup) IN
         IF ForgetReleases(y)
         THEN Result(Put(Inodes, ino, NULL),
                     Append(DeletedInodes, ino),
                     UpdateUsedInodes(m_stbuf, -UsedBlocks(y)),
                     <<>>, NoIno, <<>>, "none")
         ELSE Result(Put(Inodes, ino, y), DeletedInodes, m_stbuf,
                     <<>>, NoIno, <<>>, "none")

FuseForget(ino, nlookup) ==
    LET x == Get(Inodes, ino) IN
    IF IsNull(x)
    THEN Result(Inodes, DeletedInodes, m_stbuf, <<>>, NoIno, <<>>, "none")
    ELSE LET y == Forget(x, nlookup) IN
         IF ForgetReleases(y)
         THEN Result(Put(Inodes, ino, NULL),
                     Append(DeletedInodes, ino),
                     UpdateUsedInodes(m_stbuf, -UsedBlocks(y)),
                     <<>>, NoIno, <<>>, "none")
         ELSE Result(Put(Inodes, ino, y), DeletedInodes, m_stbuf,
                     <<>>, NoIno, <<>>, "none")

\* ----------------------------------------------------------- FuseMknod
FuseMknod(parent, name, mode, ow) ==
    IF parent >= Size(Inodes) THEN Fail("ENOENT")
    ELSE IF Dead(Get(Inodes, parent)) THEN Fail("ENOENT")
    ELSE IF ~IsDirectory(Get(Inodes, parent)) THEN Fail("EISDIR")
    ELSE IF mode \notin {"S_IFDIR", "S_IFREG"} THEN Fail("ENOENT")
    ELSE LET isdir == mode = "S_IFDIR"
             \* S_ISDIR: parentDir_p->AddHardLink() before the registration
             I1 == IF isdir
                   THEN Put(Inodes, parent, AddHardLink(Get(Inodes, parent)))
                   ELSE Inodes
             r == RegisterInode(I1, DeletedInodes, m_stbuf,
                                NewInode(IF isdir THEN "Directory" ELSE "File"),
                                IF isdir THEN 2 ELSE 1)
             I2 == Put(r.inodes, parent, AddChild(Get(r.inodes, parent), name, r.ino, ow))
         IN Entry(ReplyEntry(I2, r.ino), r.deleted, r.stbuf, r.ino)

\* ----------------------------------------------------------- FuseMkdir
FuseMkdir(parent, name) ==
    IF parent >= Size(Inodes) THEN Fail("ENOENT")
    ELSE IF ~IsDirectory(Get(Inodes, parent)) THEN Fail("ENOTDIR")
    ELSE IF ChildInodeNumberWithName(Get(Inodes, parent), name) # INO_NOTFOUND
         THEN Fail("EEXIST")
    ELSE LET r == RegisterInode(Inodes, DeletedInodes, m_stbuf, NewInode("Directory"), 2)
             d1 == AddChild(Get(r.inodes, r.ino), ".", r.ino, TRUE)
             d2 == AddChild(d1, "..", parent, TRUE)
             I1 == Put(r.inodes, r.ino, d2)
             I2 == Put(I1, parent, AddHardLink(Get(I1, parent)))
             I3 == Put(I2, parent, AddChild(Get(I2, parent), name, r.ino, TRUE))
         IN Entry(ReplyEntry(I3, r.ino), r.deleted, r.stbuf, r.ino)

\* ---------------------------------------------------------- FuseUnlink
FuseUnlink(parent, name) ==
    IF parent >= Size(Inodes) THEN Fail("ENOENT")
    ELSE IF Dead(Get(Inodes, parent)) THEN Fail("ENOENT")
    ELSE IF ~IsDirectory(Get(Inodes, parent)) THEN Fail("ENOTDIR")
    ELSE LET ino == ChildInodeNumberWithName(Get(Inodes, parent), name) IN
         IF ino = INO_NOTFOUND THEN Fail("ENOENT")
         ELSE LET I1 == Put(Inodes, parent, RemoveChild(Get(Inodes, parent), name)) IN
              IF IsNull(Get(I1, ino))
              THEN \* inode_p->RemoveHardLink() through a null pointer
                   Result(I1, DeletedInodes, m_stbuf, <<>>, NoIno, <<>>, "segv")
              ELSE Done(Put(I1, ino, RemoveHardLink(Get(I1, ino))))

\* ----------------------------------------------------------- FuseRmdir
RECURSIVE DropAllLinks(_)
\* while (!dir_p->HasNoLinks()) dir_p->RemoveHardLink();
DropAllLinks(x) == IF HasNoLinks(x) THEN x ELSE DropAllLinks(RemoveHardLink(x))

FuseRmdir(parent, name) ==
    IF parent >= Size(Inodes) THEN Fail("ENOENT")
    ELSE IF Dead(Get(Inodes, parent)) THEN Fail("ENOENT")
    ELSE IF ~IsDirectory(Get(Inodes, parent)) THEN Fail("ENOTDIR")
    ELSE LET ino == ChildInodeNumberWithName(Get(Inodes, parent), name) IN
         IF ino = INO_NOTFOUND THEN Fail("ENOENT")
         ELSE IF ino = parent THEN Fail("EINVAL")
         ELSE IF Dead(Get(Inodes, ino)) THEN Fail("ENOENT")
         ELSE IF ~IsDirectory(Get(Inodes, ino)) THEN Fail("ENOTDIR")
         ELSE IF Cardinality(DOMAIN Children(Get(Inodes, ino))) > 2 THEN Fail("ENOTEMPTY")
         ELSE LET I1 == Put(Inodes, parent, RemoveChild(Get(Inodes, parent), name))
                  I2 == Put(I1, parent, RemoveHardLink(Get(I1, parent)))
                  I3 == Put(I2, ino, DropAllLinks(Get(I2, ino)))
              IN Done(I3)

\* ---------------------------------------------------------- FuseRename
\* line 960: the inode whose hard link is removed when newname exists
RenameExistingInode(parent, existingIno) == parent

\* lines 957-963: the hard link removed when newname is already bound
RenameDropExisting(I, parent, existingIno) ==
    IF existingIno # INO_NOTFOUND
    THEN LET e == RenameExistingInode(parent, existingIno) IN
         Put(I, e, RemoveHardLink(Get(I, e)))
    ELSE I

\* line 966: the new name is pointed at the inode
RenameBindNewName(I, newparent, newname, ino) ==
    Put(I, newparent, UpdateChild(Get(I, newparent), newname, ino))

\* line 969: the old name is marked unused
RenameClearOldName(I, parent, name) ==
    Put(I, parent, UpdateChild(Get(I, parent), name, 0))

FuseRename(parent, name, newparent, newname) ==
    IF parent >= Size(Inodes) THEN Fail("ENOENT")
    ELSE IF Dead(Get(Inodes, parent)) THEN Fail("ENOENT")
    ELSE IF ~IsDirectory(Get(Inodes, parent)) THEN Fail("ENOTDIR")
    ELSE LET ino == ChildInodeNumberWithName(Get(Inodes, parent), name) IN
         IF ino = INO_NOTFOUND THEN Fail("ENOENT")
         ELSE IF newparent >= Size(Inodes) THEN Fail("ENOENT")
         ELSE IF Dead(Get(Inodes, newparent)) THEN Fail("ENOENT")
         ELSE IF ~IsDirectory(Get(Inodes, newparent)) THEN Fail("ENOTDIR")
         ELSE LET existingIno == ChildInodeNumberWithName(Get(Inodes, newparent), newname)
                  I1 == RenameDropExisting(Inodes, parent, existingIno)
                  I2 == RenameBindNewName(I1, newparent, newname, ino)
                  I3 == RenameClearOldName(I2, parent, name)
              IN Done(I3)

\* ------------------------------------------------------------ FuseLink
\* A link that binds the new name and leaves the hard-link count as it was
FuseLink_NoCount(ino, newparent, newname, ow) ==
    IF newparent >= Size(Inodes) \/ ino >= Size(Inodes) THEN Fail("ENOENT")
    ELSE IF Dead(Get(Inodes, newparent)) \/ Dead(Get(Inodes, ino)) THEN Fail("ENOENT")
    ELSE IF ~IsDirectory(Get(Inodes, newparent)) THEN Fail("ENOTDIR")
    ELSE LET I1 == Put(Inodes, newparent, AddChild(Get(Inodes, newparent), newname, ino, ow))
         IN Entry(ReplyEntry(I1, ino), DeletedInodes, m_stbuf, ino)

FuseLink(ino, newparent, newname, ow) ==
    IF newparent >= Size(Inodes) THEN Fail("ENOENT")
    ELSE IF Dead(Get(Inodes, newparent)) THEN Fail("ENOENT")
    ELSE IF ~IsDirectory(Get(Inodes, newparent)) THEN Fail("ENOTDIR")
    ELSE IF ino >= Size(Inodes) THEN Fail("ENOENT")
    ELSE IF Dead(Get(Inodes, ino)) THEN Fail("ENOENT")
    ELSE LET existingIno == ChildInodeNumberWithName(Get(Inodes, newparent), newname)
             exists == existingIno # INO_NOTFOUND /\ existingIno > 0
             \* line 1016 replies EEXIST and does not return
             I1 == Put(Inodes, newparent, AddChild(Get(Inodes, newparent), newname, ino, ow))
             I2 == Put(I1, ino, AddHardLink(Get(I1, ino)))
             I3 == ReplyEntry(I2, ino)
         IN IF exists
            THEN Result(I3, DeletedInodes, m_stbuf, <<"EEXIST", "OK">>, ino, <<>>, "uaf")
            ELSE Entry(I3, DeletedInodes, m_stbuf, ino)

\* --------------------------------------------------------- FuseSymlink
FuseSymlink(parent, name, ow) ==
    IF parent >= Size(Inodes) THEN Fail("ENOENT")
    ELSE IF Dead(Get(Inodes, parent)) THEN Fail("ENOENT")
    ELSE IF ~IsDirectory(Get(Inodes, parent)) THEN Fail("ENOTDIR")
    ELSE LET r == RegisterInode(Inodes, DeletedInodes, m_stbuf, NewInode("SymLink"), 1)
             I1 == Put(r.inodes, parent, AddChild(Get(r.inodes, parent), name, r.ino, ow))
         IN Entry(ReplyEntry(I1, r.ino), r.deleted, r.stbuf, r.ino)

\* ---------------------------------------------------------- FuseCreate
FuseCreate(parent, name, ow) ==
    IF parent >= Size(Inodes) THEN Fail("ENOENT")
    ELSE IF Dead(Get(Inodes, parent)) THEN Fail("ENOENT")
    ELSE IF ~IsDirectory(Get(Inodes, parent)) THEN Fail("ENOTDIR")
    ELSE LET r == RegisterInode(Inodes, DeletedInodes, m_stbuf, NewInode("File"), 1)
             I1 == Put(r.inodes, parent, AddChild(Get(r.inodes, parent), name, r.ino, ow))
         IN Entry(ReplyEntry(I1, r.ino), r.deleted, r.stbuf, r.ino)

\* ------------------------------------------------- FuseWrite / FuseRead
\* File::WriteAndReply: bytes written at off, a hole is zero-filled
WriteData(data, byte, off) ==
    [i \in 1..(IF off + 1 > Len(data) THEN off + 1 ELSE Len(data)) |->
        IF i = off + 1 THEN byte ELSE IF i <= Len(data) THEN data[i] ELSE "0"]

\* File::ReadAndReply: the bytes [off, min(off+size, Len))
ReadData(data, size, off) ==
    [i \in 1..(IF off >= Len(data) THEN 0
               ELSE IF off + size > Len(data) THEN Len(data) - off ELSE size) |->
        data[off + i]]

FuseWrite(ino, byte, off) ==
    IF ino >= Size(Inodes) THEN Fail("ENOENT")
    ELSE IF Dead(Get(Inodes, ino)) THEN Fail("ENOENT")
    ELSE LET x == Get(Inodes, ino)
             y == [x EXCEPT !.data = WriteData(@, byte, off)]
             grow == UsedBlocks(y) - UsedBlocks(x)
         IN IF grow > m_stbuf.f_bfree THEN Fail("ENOSPC")
            ELSE Result(Put(Inodes, ino, y), DeletedInodes,
                        UpdateUsedBlocks(m_stbuf, grow), <<"OK">>, NoIno, <<>>, "none")

FuseRead(ino, size, off) ==
    IF ino >= Size(Inodes) THEN Fail("ENOENT")
    ELSE IF Dead(Get(Inodes, ino)) THEN Fail("ENOENT")
    ELSE Result(Inodes, DeletedInodes, m_stbuf, <<"OK">>, NoIno,
                ReadData(Get(Inodes, ino).data, size, off), "none")

\* ------------------------------------- FuseFsync / FuseFsyncDir / FuseFlush
FuseFsync(ino) ==
    IF ino >= Size(Inodes) THEN Fail("ENOENT") ELSE Done(Inodes)

FuseFsyncDir(ino) ==
    IF ino >= Size(Inodes) THEN Fail("ENOENT")
    ELSE IF ~IsDirectory(Get(Inodes, ino)) THEN Fail("ENOTDIR")
    ELSE Done(Inodes)

FuseFlush(ino) ==
    IF ino >= Size(Inodes) THEN Fail("ENOENT") ELSE Done(Inodes)

\* ------------------------------------------------------------- actions
Initialized == Len(Inodes) > 0

\* A callback is delivered to a running process; MaxCalls bounds the run
Running == Initialized /\ ~crashed /\ ncalls < MaxCalls

\* The arguments the transport may pass: every slot number and one past the end
InoArgs == 0..Len(Inodes)

\* No rename is between its first and its last statement
Idle == [pc |-> "idle"]

Apply(r) ==
    /\ Inodes' = r.inodes
    /\ DeletedInodes' = r.deleted
    /\ m_stbuf' = r.stbuf
    /\ crashed' \in (IF r.ub = "segv" THEN {TRUE}
                     ELSE IF r.ub = "uaf" THEN BOOLEAN ELSE {FALSE})
    /\ ncalls' = IF Initialized THEN ncalls + 1 ELSE ncalls
    /\ pending' = pending
    /\ iterators' = Invalidate(iterators, r.inodes)
    /\ reader' = Observe(reader, r.inodes)

Init ==
    /\ Inodes = <<>>
    /\ DeletedInodes = <<>>
    /\ m_stbuf = [f_bfree |-> kTotalBlocks, f_ffree |-> kTotalInodes]
    /\ crashed = FALSE
    /\ ncalls = 0
    /\ pending = Idle
    /\ iterators = <<>>
    /\ reader = NoReader

Init_ ==
    /\ ~Initialized /\ ~crashed
    /\ Apply(FuseInitResult)

Lookup ==
    /\ Running
    /\ \E parent \in InoArgs, name \in LookupNames :
          Apply(FuseLookup(parent, name))

\* The kernel forgets at most the references it was given
ForgetArgs(ino) ==
    IF IsNull(Get(Inodes, ino)) THEN {1} ELSE 1..Get(Inodes, ino).nlookup

DoForget ==
    /\ Running
    /\ \E ino \in 0..(Len(Inodes) - 1) : \E n \in ForgetArgs(ino) :
          Apply(FuseForget(ino, n))

Mknod ==
    /\ Running
    /\ \E parent \in InoArgs, name \in Names, mode \in Modes, ow \in BOOLEAN :
          Apply(FuseMknod(parent, name, mode, ow))

Mkdir ==
    /\ Running
    /\ \E parent \in InoArgs, name \in Names :
          Apply(FuseMkdir(parent, name))

Unlink ==
    /\ Running
    /\ \E parent \in InoArgs, name \in Names :
          Apply(FuseUnlink(parent, name))

Rmdir ==
    /\ Running
    /\ \E parent \in InoArgs, name \in Names :
          Apply(FuseRmdir(parent, name))

Rename ==
    /\ Running
    /\ \E parent \in InoArgs, name \in Names, newparent \in InoArgs, newname \in Names :
          Apply(FuseRename(parent, name, newparent, newname))

Link ==
    /\ Running
    /\ \E ino \in InoArgs, newparent \in InoArgs, newname \in Names, ow \in BOOLEAN :
          Apply(FuseLink(ino, newparent, newname, ow))

Symlink ==
    /\ Running
    /\ \E parent \in InoArgs, name \in Names, ow \in BOOLEAN :
          Apply(FuseSymlink(parent, name, ow))

Create ==
    /\ Running
    /\ \E parent \in InoArgs, name \in Names, ow \in BOOLEAN :
          Apply(FuseCreate(parent, name, ow))

\* Write and Read reach File::WriteAndReply / File::ReadAndReply; what the other
\* node types reply is decided by code outside src/, so a live target is a file.
FileArgs ==
    {i \in InoArgs : i < Len(Inodes) => (Dead(Get(Inodes, i)) \/ IsFile(Get(Inodes, i)))}

Write ==
    /\ Running
    /\ \E ino \in FileArgs, byte \in Bytes, off \in 0..(MaxFileSize - 1) :
          Apply(FuseWrite(ino, byte, off))

Read ==
    /\ Running
    /\ \E ino \in FileArgs, off \in 0..(MaxFileSize - 1) :
          Apply(FuseRead(ino, MaxFileSize, off))

Fsync ==
    /\ Running
    /\ \E ino \in InoArgs :
          Apply(FuseFsync(ino))

FsyncDir ==
    /\ Running
    /\ \E ino \in InoArgs :
          Apply(FuseFsyncDir(ino))

Flush ==
    /\ Running
    /\ \E ino \in InoArgs :
          Apply(FuseFlush(ino))

GetAttr ==
    /\ Running
    /\ \E ino \in InoArgs, oob \in OutOfRangeReads : Apply(FuseGetAttr(ino, oob))

SetAttr ==
    /\ Running
    /\ \E ino \in InoArgs, oob \in OutOfRangeReads : Apply(FuseSetAttr(ino, oob))

GetLock ==
    /\ Running
    /\ \E ino \in InoArgs : Apply(FuseGetLock(ino))

Next ==
    \/ Init_
    \/ GetAttr
    \/ SetAttr
    \/ GetLock
    \/ Lookup
    \/ DoForget
    \/ Mknod
    \/ Mkdir
    \/ Unlink
    \/ Rmdir
    \/ Rename
    \/ Link
    \/ Symlink
    \/ Create
    \/ Write
    \/ Read
    \/ Fsync
    \/ FsyncDir
    \/ Flush

Spec == Init /\ [][Next]_vars

\* --------------------------------------------------------------------
\* Callbacks on several threads.  The dispatcher takes no lock, so another
\* thread's lookup can run between any two statements of FuseRename that call
\* into a directory; each such call is one step.
\* --------------------------------------------------------------------
\* lines 901-952: the checks, and the reads of ino and existingIno
RenameBegin ==
    /\ Running /\ pending = Idle
    /\ \E parent \in InoArgs, name \in Names, newparent \in InoArgs, newname \in Names :
          IF FuseRename(parent, name, newparent, newname).replies # <<"OK">>
          THEN Apply(FuseRename(parent, name, newparent, newname))
          ELSE /\ pending' = [pc |-> "drop", parent |-> parent, name |-> name,
                              newparent |-> newparent, newname |-> newname,
                              ino |-> ChildInodeNumberWithName(Get(Inodes, parent), name),
                              existingIno |->
                                  ChildInodeNumberWithName(Get(Inodes, newparent), newname)]
               /\ ncalls' = ncalls + 1
               /\ UNCHANGED <<Inodes, DeletedInodes, m_stbuf, crashed, iterators, reader>>

\* lines 957-963
RenameDrop ==
    /\ ~crashed /\ pending.pc = "drop"
    /\ Inodes' = RenameDropExisting(Inodes, pending.parent, pending.existingIno)
    /\ pending' = [pending EXCEPT !.pc = "bind"]
    /\ UNCHANGED <<DeletedInodes, m_stbuf, crashed, ncalls, iterators, reader>>

\* line 966
RenameBind ==
    /\ ~crashed /\ pending.pc = "bind"
    /\ Inodes' = RenameBindNewName(Inodes, pending.newparent, pending.newname, pending.ino)
    /\ pending' = [pending EXCEPT !.pc = "clear"]
    /\ UNCHANGED <<DeletedInodes, m_stbuf, crashed, ncalls, iterators, reader>>

\* lines 969-972
RenameClear ==
    /\ ~crashed /\ pending.pc = "clear"
    /\ Inodes' = RenameClearOldName(Inodes, pending.parent, pending.name)
    /\ pending' = Idle
    /\ UNCHANGED <<DeletedInodes, m_stbuf, crashed, ncalls, iterators, reader>>

\* The names are created before the rename is issued
CreateBefore == pending = Idle /\ Create

NextConc ==
    \/ Init_
    \/ CreateBefore
    \/ RenameBegin
    \/ RenameDrop
    \/ RenameBind
    \/ RenameClear
    \/ Lookup

SpecConc == Init /\ [][NextConc]_vars

\* --------------------------------------------------------------------
\* One enumeration of a directory by readdir, with callbacks that change the
\* directory delivered between its calls.
\* --------------------------------------------------------------------
ResumeChoices(ino) ==
    {"segv", "end"} \cup DirKeys(Inodes, ino)

\* What the caller keeps of a reply: an empty buffer ends the enumeration,
\* otherwise the cookie of the last entry is passed to the next call
Received(rd, r, size) ==
    [rd EXCEPT !.off = r.cookie,
               !.seen = rd.seen \o r.buf,
               !.calls = rd.calls + 1,
               !.ended = (r.replies # <<"OK">>) \/ (r.buf = <<>>),
               !.cut = rd.cut \/ r.cut,
               !.size = size]

ApplyReadDir(rd, r, size) ==
    /\ iterators' = r.iterators
    /\ crashed' = (r.ub = "segv")
    /\ reader' = IF r.ub = "segv" THEN rd ELSE Received(rd, r, size)
    /\ UNCHANGED <<Inodes, DeletedInodes, m_stbuf, ncalls, pending>>

\* The first call of the enumeration, with cookie 0
ReadDirFirst ==
    /\ Initialized /\ ~crashed /\ reader = NoReader
    /\ \E ino \in InoArgs, size \in 1..MaxReadDirSize :
          LET rd == [ino |-> ino, off |-> 0, seen |-> <<>>, calls |-> 0,
                     ended |-> FALSE, cut |-> FALSE, size |-> size, mutated |-> FALSE,
                     first |-> DirKeys(Inodes, ino), always |-> DirKeys(Inodes, ino)]
          IN ApplyReadDir(rd, FuseReadDir(ino, size, 0, "end"), size)

\* A following call, with the cookie of the reply before and the same size
ReadDirNext ==
    /\ Initialized /\ ~crashed /\ reader # NoReader
    /\ ~reader.ended /\ reader.calls < MaxReadDirCalls
    /\ \E resume \in ResumeChoices(reader.ino) :
          ApplyReadDir(reader,
                       FuseReadDir(reader.ino, reader.size, reader.off, resume),
                       reader.size)

NextReadDir ==
    \/ Init_
    \/ Create
    \/ Mkdir
    \/ Unlink
    \/ ReadDirFirst
    \/ ReadDirNext

SpecReadDir == Init /\ [][NextReadDir]_vars

\* --------------------------------------------------------------------
\* Longer runs of the callbacks that make and remove names and links
\* --------------------------------------------------------------------
RunningLinks == Initialized /\ ~crashed /\ ncalls < MaxLinkCalls

LinksCreate ==
    /\ RunningLinks
    /\ \E parent \in InoArgs, name \in Names, ow \in BOOLEAN :
          Apply(FuseCreate(parent, name, ow))

LinksMkdir ==
    /\ RunningLinks
    /\ \E parent \in InoArgs, name \in Names : Apply(FuseMkdir(parent, name))

LinksLink ==
    /\ RunningLinks
    /\ \E ino \in InoArgs, newparent \in InoArgs, newname \in Names, ow \in BOOLEAN :
          Apply(FuseLink(ino, newparent, newname, ow))

LinksUnlink ==
    /\ RunningLinks
    /\ \E parent \in InoArgs, name \in Names : Apply(FuseUnlink(parent, name))

LinksRmdir ==
    /\ RunningLinks
    /\ \E parent \in InoArgs, name \in Names : Apply(FuseRmdir(parent, name))

LinksWrite ==
    /\ RunningLinks
    /\ \E ino \in FileArgs, byte \in Bytes, off \in 0..(MaxFileSize - 1) :
          Apply(FuseWrite(ino, byte, off))

LinksForget ==
    /\ RunningLinks
    /\ \E ino \in 0..(Len(Inodes) - 1) : \E n \in ForgetArgs(ino) :
          Apply(FuseForget(ino, n))

NextLinks ==
    \/ Init_
    \/ LinksCreate
    \/ LinksMkdir
    \/ LinksLink
    \/ LinksUnlink
    \/ LinksRmdir
    \/ LinksWrite
    \/ LinksForget

SpecLinks == Init /\ [][NextLinks]_vars

\* --------------------------------------------------------------------
\* Longer runs of the callbacks that register and release inodes in the root
\* --------------------------------------------------------------------
RunningSlots == Initialized /\ ~crashed /\ ncalls < MaxSlotCalls

SlotsCreate ==
    /\ RunningSlots
    /\ \E name \in Names, ow \in BOOLEAN : Apply(FuseCreate(1, name, ow))

SlotsUnlink ==
    /\ RunningSlots
    /\ \E name \in Names : Apply(FuseUnlink(1, name))

SlotsForget ==
    /\ RunningSlots
    /\ \E ino \in 0..(Len(Inodes) - 1) : \E n \in ForgetArgs(ino) :
          Apply(FuseForget(ino, n))

NextSlots ==
    \/ Init_
    \/ SlotsCreate
    \/ SlotsUnlink
    \/ SlotsForget

SpecSlots == Init /\ [][NextSlots]_vars

\* --------------------------------------------------------------------
\* Longer runs of the callbacks that bind, rebind and drop names in the root
\* --------------------------------------------------------------------
RunningZero == Initialized /\ ~crashed /\ ncalls < MaxZeroCalls

ZeroCreate ==
    /\ RunningZero
    /\ \E name \in Names, ow \in BOOLEAN : Apply(FuseCreate(1, name, ow))

ZeroRename ==
    /\ RunningZero
    /\ \E name \in Names, newname \in Names : Apply(FuseRename(1, name, 1, newname))

ZeroUnlink ==
    /\ RunningZero
    /\ \E name \in Names : Apply(FuseUnlink(1, name))

ZeroLink ==
    /\ RunningZero
    /\ \E ino \in 0..(Len(Inodes) - 1), newname \in Names, ow \in BOOLEAN :
          Apply(FuseLink(ino, 1, newname, ow))

ZeroForget ==
    /\ RunningZero
    /\ \E ino \in 0..(Len(Inodes) - 1) : \E n \in ForgetArgs(ino) :
          Apply(FuseForget(ino, n))

NextZero ==
    \/ Init_
    \/ ZeroCreate
    \/ ZeroRename
    \/ ZeroUnlink
    \/ ZeroLink
    \/ ZeroForget

SpecZero == Init /\ [][NextZero]_vars

\* --------------------------------------------------------------------
\* Two create callbacks on two threads.  RegisterInode takes no lock, so the
\* other thread can run between any two of its statements; each statement
\* that touches Inodes, DeletedInodes or m_stbuf is one step.  pending holds
\* the state the pair started from and, per thread, its position, the name it
\* creates, its local ino, and the slot in which its inode_p is stored.
\* --------------------------------------------------------------------
Threads == {1, 2}

Other(t) == 3 - t

Registering == pending.pc = "reg"

At(t, pc) == Registering /\ ~crashed /\ pending.th[t].pc = pc

\* Thread t moves to position pc with local ino and stored-at slot as given
Goto(t, pc, ino, at) ==
    pending' = [pending EXCEPT !.th[t].pc = pc, !.th[t].ino = ino, !.th[t].at = at]

Stay(t, pc) == Goto(t, pc, pending.th[t].ino, pending.th[t].at)

\* callbacks delivered one at a time before the pair
RegBefore ==
    /\ pending = Idle /\ Initialized /\ ~crashed /\ ncalls < MaxRegCalls
    /\ \/ \E name \in Names : Apply(FuseCreate(1, name, TRUE))
       \/ \E name \in Names : Apply(FuseUnlink(1, name))
       \/ \E ino \in 0..(Len(Inodes) - 1) : \E n \in ForgetArgs(ino) :
             Apply(FuseForget(ino, n))

\* FuseCreate lines 1225-1244 on both threads: the parent checks pass and
\* each thread has made its File
RegStart ==
    /\ pending = Idle /\ Initialized /\ ~crashed
    /\ FuseCreate(1, "a", TRUE).replies = <<"OK">>
    /\ \E n1 \in Names, n2 \in Names :
          pending' = [pc |-> "reg",
                      start |-> [inodes |-> Inodes, deleted |-> DeletedInodes,
                                 stbuf |-> m_stbuf],
                      th |-> <<[pc |-> "test", name |-> n1, ino |-> NoIno, at |-> NoIno],
                               [pc |-> "test", name |-> n2, ino |-> NoIno, at |-> NoIno]>>]
    /\ UNCHANGED <<Inodes, DeletedInodes, m_stbuf, crashed, ncalls, iterators, reader>>

\* line 1276: if (DeletedInodes.empty())
RegTest(t) ==
    /\ At(t, "test")
    /\ Stay(t, IF DeletedInodes = <<>> THEN "push" ELSE "front")
    /\ UNCHANGED <<Inodes, DeletedInodes, m_stbuf, crashed, ncalls, iterators, reader>>

\* line 1277: Inodes.push_back(inode_p)
RegPush(t) ==
    /\ At(t, "push")
    /\ Inodes' = Append(Inodes, NewInode("File"))
    /\ Goto(t, "size", NoIno, Len(Inodes))
    /\ UNCHANGED <<DeletedInodes, m_stbuf, crashed, ncalls, iterators, reader>>

\* line 1278: ino = Inodes.size() - 1
RegSize(t) ==
    /\ At(t, "size")
    /\ Goto(t, "count", Len(Inodes) - 1, pending.th[t].at)
    /\ UNCHANGED <<Inodes, DeletedInodes, m_stbuf, crashed, ncalls, iterators, reader>>

\* line 1279: UpdateUsedInodes(1)
RegCount(t) ==
    /\ At(t, "count")
    /\ m_stbuf' = UpdateUsedInodes(m_stbuf, 1)
    /\ Stay(t, "init")
    /\ UNCHANGED <<Inodes, DeletedInodes, crashed, ncalls, iterators, reader>>

\* line 1281: ino = DeletedInodes.front(); on a queue the other thread has
\* emptied this is undefined
RegFront(t) ==
    /\ At(t, "front")
    /\ IF DeletedInodes = <<>>
       THEN crashed' = TRUE /\ Stay(t, "front")
       ELSE crashed' = FALSE /\ Goto(t, "pop", Head(DeletedInodes), NoIno)
    /\ UNCHANGED <<Inodes, DeletedInodes, m_stbuf, ncalls, iterators, reader>>

\* line 1282: DeletedInodes.pop(); undefined on an empty queue
RegPop(t) ==
    /\ At(t, "pop")
    /\ IF DeletedInodes = <<>>
       THEN crashed' = TRUE /\ UNCHANGED DeletedInodes
       ELSE crashed' = FALSE /\ DeletedInodes' = Tail(DeletedInodes)
    /\ Stay(t, "store")
    /\ UNCHANGED <<Inodes, m_stbuf, ncalls, iterators, reader>>

\* line 1283: Inodes[ino] = inode_p; the other thread's inode_p, if stored in
\* the same slot, is no longer in the table
RegStore(t) ==
    /\ At(t, "store")
    /\ Inodes' = Put(Inodes, pending.th[t].ino, NewInode("File"))
    /\ pending' = [pending EXCEPT
            !.th[t].pc = "init",
            !.th[t].at = pending.th[t].ino,
            !.th[Other(t)].at = IF @ = pending.th[t].ino THEN NoIno ELSE @]
    /\ UNCHANGED <<DeletedInodes, m_stbuf, crashed, ncalls, iterators, reader>>

\* lines 1286-1288 and FuseCreate 1247-1254: the thread's own inode is
\* initialized, the name is added to the parent, and the create reply raises
\* the inode's lookup count
RegFinish(t) ==
    /\ At(t, "init")
    /\ LET at == pending.th[t].at
           I1 == IF at = NoIno THEN Inodes
                 ELSE ReplyEntry(Put(Inodes, at, Initialize(Get(Inodes, at), 1)), at)
       IN Inodes' = Put(I1, 1, AddChild(Get(I1, 1), pending.th[t].name,
                                        pending.th[t].ino, TRUE))
    /\ m_stbuf' = UpdateUsedBlocks(m_stbuf, 0)
    /\ Stay(t, "done")
    /\ iterators' = Invalidate(iterators, Inodes')
    /\ UNCHANGED <<DeletedInodes, crashed, ncalls, reader>>

NextReg ==
    \/ Init_
    \/ RegBefore
    \/ RegStart
    \/ \E t \in Threads : RegTest(t)
    \/ \E t \in Threads : RegPush(t)
    \/ \E t \in Threads : RegSize(t)
    \/ \E t \in Threads : RegCount(t)
    \/ \E t \in Threads : RegFront(t)
    \/ \E t \in Threads : RegPop(t)
    \/ \E t \in Threads : RegStore(t)
    \/ \E t \in Threads : RegFinish(t)

SpecReg == Init /\ [][NextReg]_vars

\* --------------------------------------------------------------------
\* Longer runs of the callbacks that make, link and remove directories
\* --------------------------------------------------------------------
RunningDirs == Initialized /\ ~crashed /\ ncalls < MaxDirCalls

DirsMknod ==
    /\ RunningDirs
    /\ \E parent \in InoArgs, name \in Names, mode \in Modes, ow \in BOOLEAN :
          Apply(FuseMknod(parent, name, mode, ow))

DirsMkdir ==
    /\ RunningDirs
    /\ \E parent \in InoArgs, name \in Names : Apply(FuseMkdir(parent, name))

DirsLink ==
    /\ RunningDirs
    /\ \E ino \in InoArgs, newparent \in InoArgs, newname \in Names, ow \in BOOLEAN :
          Apply(FuseLink(ino, newparent, newname, ow))

DirsRmdir ==
    /\ RunningDirs
    /\ \E parent \in InoArgs, name \in Names : Apply(FuseRmdir(parent, name))

DirsForget ==
    /\ RunningDirs
    /\ \E ino \in 0..(Len(Inodes) - 1) : \E n \in ForgetArgs(ino) :
          Apply(FuseForget(ino, n))

NextDirs ==
    \/ Init_
    \/ DirsMknod
    \/ DirsMkdir
    \/ DirsLink
    \/ DirsRmdir
    \/ DirsForget

SpecDirs == Init /\ [][NextDirs]_vars

\* ====================================================================
\* Properties
\* ====================================================================
Slots == 0..(Len(Inodes) - 1)

LiveDirs == {i \in Slots : ~Dead(Get(Inodes, i)) /\ IsDirectory(Get(Inodes, i))}

Unchanged(r) ==
    r.inodes = Inodes /\ r.deleted = DeletedInodes /\ r.stbuf = m_stbuf

QueuedSlots == {DeletedInodes[k] : k \in 1..Len(DeletedInodes)}

\* --------------------------------------------------------------- C1
\* C1: a slot is tombstoned, and its number queued for reuse, only by a forget
\* that brings the lookup count to zero while the hard-link count is zero; and
\* every number waiting in DeletedInodes names an empty slot, so a
\* registration never stores a new inode over one that is still in the table:
\* a slot that stays occupied keeps holding an inode of the same kind.
C1_ReleaseStep(i) ==
    /\ Get(Inodes, i).nlink = 0
    /\ Get(Inodes, i).nlookup > 0
    /\ Inodes' = FuseForget(i, Get(Inodes, i).nlookup).inodes

C2_BothZeroIsDeallocated ==
    \A i \in Slots :
        LET x == Get(Inodes, i) IN
        (~IsNull(x) /\ x.type \in {"File", "Directory", "SymLink"})
            => ~(x.nlink = 0 /\ x.nlookup = 0)

\* --------------------------------------------------------------- C3
\* C3: a file whose only name was unlinked while its lookup count is positive
\* can still be read: read replies with the bytes written before.
C3_UnlinkedOpenFileReadable ==
    \A i \in Slots :
        LET x == Get(Inodes, i) IN
        (IsFile(x) /\ x.nlink = 0 /\ x.nlookup > 0 /\ x.data # <<>>)
            => LET r == FuseRead(i, Len(x.data), 0) IN
               r.replies = <<"OK">> /\ r.buf = x.data

\* --------------------------------------------------------------- C4
\* C4: every callback other than forget that is given, as its target or
\* parent, a number that is out of range, tombstoned or without hard links
\* replies ENOENT and changes nothing.  (Number 0, the reserved slot, is left
\* out: the numbers are those of files, directories and symlinks.)
Unresolvable(i) == i >= Len(Inodes) \/ Dead(Get(Inodes, i))

NotFoundNoMutation(r) == r.replies = <<"ENOENT">> /\ Unchanged(r)

C4_DeadInodeRepliesNotFound ==
    \A i \in 1..Len(Inodes) :
        Unresolvable(i) =>
            /\ \A n \in LookupNames : NotFoundNoMutation(FuseLookup(i, n))
            /\ \A n \in Names :
                  /\ NotFoundNoMutation(FuseMkdir(i, n))
                  /\ NotFoundNoMutation(FuseUnlink(i, n))
                  /\ NotFoundNoMutation(FuseRmdir(i, n))
                  /\ \A ow \in BOOLEAN :
                        /\ NotFoundNoMutation(FuseSymlink(i, n, ow))
                        /\ NotFoundNoMutation(FuseCreate(i, n, ow))
                        /\ \A m \in Modes : NotFoundNoMutation(FuseMknod(i, n, m, ow))
            /\ NotFoundNoMutation(FuseFsync(i))
            /\ NotFoundNoMutation(FuseFsyncDir(i))
            /\ NotFoundNoMutation(FuseFlush(i))
            /\ \A b \in Bytes : NotFoundNoMutation(FuseWrite(i, b, 0))
            /\ NotFoundNoMutation(FuseRead(i, MaxFileSize, 0))

\* --------------------------------------------------------------- C5
\* C5: a rename onto a name that is already bound lowers the hard-link count
\* of the inode that name was bound to by exactly one and changes no other
\* hard-link count.
RenameArgs ==
    {a \in InoArgs \X Names \X InoArgs \X Names : TRUE}

NlinkOf(I, i) == IF IsNull(Get(I, i)) THEN -1 ELSE Get(I, i).nlink

C5_RenameOverwriteDropsTargetLink ==
    \A a \in RenameArgs :
        LET r == FuseRename(a[1], a[2], a[3], a[4]) IN
        (r.replies = <<"OK">> /\ <<a[1], a[2]>> # <<a[3], a[4]>>) =>
            LET existingIno == ChildInodeNumberWithName(Get(Inodes, a[3]), a[4]) IN
            (existingIno # INO_NOTFOUND /\ ~IsNull(Get(Inodes, existingIno))) =>
                \A j \in Slots :
                    NlinkOf(r.inodes, j) =
                        IF j = existingIno THEN NlinkOf(Inodes, j) - 1 ELSE NlinkOf(Inodes, j)

\* --------------------------------------------------------------- C6
\* C6: after a successful rename between two different (parent, name) pairs the
\* new name is bound to the source inode and the old name is no longer an
\* entry of its parent.
C6_RenameRemovesOldName ==
    \A a \in RenameArgs :
        LET r == FuseRename(a[1], a[2], a[3], a[4]) IN
        (r.replies = <<"OK">> /\ <<a[1], a[2]>> # <<a[3], a[4]>>) =>
            /\ ChildInodeNumberWithName(Get(r.inodes, a[3]), a[4])
                  = ChildInodeNumberWithName(Get(Inodes, a[1]), a[2])
            /\ a[2] \notin DOMAIN Children(Get(r.inodes, a[1]))

\* --------------------------------------------------------------- C7
\* C7: renaming an existing name onto itself leaves the name bound to the same
\* inode and leaves every hard-link count as it was.
C7_RenameOntoItselfIsNoOp ==
    \A p \in LiveDirs : \A n \in DOMAIN Children(Get(Inodes, p)) \cap Names :
        LET r == FuseRename(p, n, p, n) IN
        /\ ChildInodeNumberWithName(Get(r.inodes, p), n)
              = ChildInodeNumberWithName(Get(Inodes, p), n)
        /\ \A j \in Slots : NlinkOf(r.inodes, j) = NlinkOf(Inodes, j)

\* --------------------------------------------------------------- C8
\* The directories reached from the set S by following entries other than
\* "." and ".."
RECURSIVE Below(_)
Below(S) ==
    LET T == S \cup {j \in Slots :
                        \E i \in S : /\ IsDirectory(Get(Inodes, i))
                                     /\ \E n \in DOMAIN Children(Get(Inodes, i)) \cap Names :
                                           Children(Get(Inodes, i))[n] = j}
    IN IF T = S THEN S ELSE Below(T)

\* C8: a rename that would move a directory into itself or into one of its own
\* descendants replies EINVAL and changes nothing.
C8_RenameIntoDescendantRejected ==
    \A a \in RenameArgs :
        (a[1] \in LiveDirs /\ a[3] \in LiveDirs) =>
            LET ino == ChildInodeNumberWithName(Get(Inodes, a[1]), a[2]) IN
            (/\ ino # INO_NOTFOUND
             /\ ~Dead(Get(Inodes, ino))
             /\ IsDirectory(Get(Inodes, ino))
             /\ a[3] \in Below({ino}))
                => LET r == FuseRename(a[1], a[2], a[3], a[4]) IN
                   r.replies = <<"EINVAL">> /\ Unchanged(r)

\* -------------------------------------------------------------- C10
\* C10: link onto a name that is already bound to a live inode replies EEXIST
\* and nothing else, and leaves the table as it was.
C10_LinkExistingNameNoMutation ==
    \A ino \in Slots, p \in LiveDirs, n \in Names, ow \in BOOLEAN :
        LET existingIno == ChildInodeNumberWithName(Get(Inodes, p), n) IN
        (/\ ~Dead(Get(Inodes, ino))
         /\ existingIno # INO_NOTFOUND
         /\ ~Dead(Get(Inodes, existingIno)))
            => LET r == FuseLink(ino, p, n, ow) IN
               r.replies = <<"EEXIST">> /\ Unchanged(r)

\* --------------------------------------------------------------- C9
ResolvesTo(parent, name, ino) ==
    LET r == FuseLookup(parent, name) IN r.replies = <<"OK">> /\ r.entry = ino

\* C9: while a rename of a live inode between two different (parent, name)
\* pairs is in progress, a lookup on another thread finds the inode under
\* exactly one of the two names: never under both, never under neither.
C9_RenameAtomicForLookups ==
    (/\ pending # Idle
     /\ <<pending.parent, pending.name>> # <<pending.newparent, pending.newname>>
     /\ pending.existingIno # pending.ino
     /\ ~Dead(Get(Inodes, pending.ino)))
        => (ResolvesTo(pending.parent, pending.name, pending.ino)
              # ResolvesTo(pending.newparent, pending.newname, pending.ino))

\* -------------------------------------------------------------- C11
ExactlyOneReply(r) == Len(r.replies) = 1

\* C11: in every reachable state, whichever replying callback is delivered
\* next and with whichever arguments, it sends exactly one reply on its
\* request: never none and never two.
C11_ExactlyOneReply ==
    Initialized => \A i \in InoArgs :
        /\ \A oob \in OutOfRangeReads :
              ExactlyOneReply(FuseGetAttr(i, oob)) /\ ExactlyOneReply(FuseSetAttr(i, oob))
        /\ ExactlyOneReply(FuseGetLock(i))
        /\ ExactlyOneReply(FuseFsync(i))
        /\ ExactlyOneReply(FuseFsyncDir(i))
        /\ ExactlyOneReply(FuseFlush(i))
        /\ ExactlyOneReply(FuseRead(i, MaxFileSize, 0))
        /\ \A b \in Bytes : ExactlyOneReply(FuseWrite(i, b, 0))
        /\ \A n \in LookupNames : ExactlyOneReply(FuseLookup(i, n))
        /\ \A n \in Names :
              /\ ExactlyOneReply(FuseMkdir(i, n))
              /\ ExactlyOneReply(FuseRmdir(i, n))
              /\ \A j \in InoArgs, m \in Names : ExactlyOneReply(FuseRename(i, n, j, m))
              /\ \A ow \in BOOLEAN :
                    /\ ExactlyOneReply(FuseSymlink(i, n, ow))
                    /\ ExactlyOneReply(FuseCreate(i, n, ow))
                    /\ \A j \in InoArgs : ExactlyOneReply(FuseLink(j, i, n, ow))
                    /\ \A m \in Modes : ExactlyOneReply(FuseMknod(i, n, m, ow))

\* -------------------------------------------------------------- C12
Count(seq, n) == Cardinality({k \in 1..Len(seq) : seq[k] = n})

Enumerating == reader # NoReader /\ reader.first # {}

\* C12: while the enumerated directory has not been changed since the first
\* readdir call, no name has been delivered twice, whatever the buffer size
\* and also after a response that was cut short; and once the empty reply has
\* ended the enumeration every name of the directory was delivered exactly once.
C12_StableDirEachEntryOnce ==
    (Enumerating /\ ~reader.mutated) =>
        /\ \A n \in reader.first : Count(reader.seen, n) <= 1
        /\ reader.ended => \A n \in reader.first : Count(reader.seen, n) = 1

\* -------------------------------------------------------------- C13
\* C13: when callbacks changed the directory between the readdir calls (and no
\* response was cut short by the buffer), no name has been delivered twice, and
\* once the enumeration has ended every name that was in the directory all the
\* time was delivered exactly once.
C13_MutatedDirNoResendNoLoss ==
    (Enumerating /\ reader.mutated /\ ~reader.cut) =>
        /\ \A n \in LookupNames : Count(reader.seen, n) <= 1
        /\ reader.ended => \A n \in reader.always : Count(reader.seen, n) = 1

\* -------------------------------------------------------------- C14
CeilDivide(a, b) == (a + b - 1) \div b

EntriesPerCall == Min(Min(kReadDirBufSize, reader.size), kReadDirEntriesPerResponse)

\* C14: an enumeration of an unchanged directory with a buffer that holds at
\* least one entry has ended by the time ceil(entries / entries-per-call) + 1
\* calls were made, and it ends only after every name was passed.
C14_EnumerationEnds ==
    (Enumerating /\ ~reader.mutated) =>
        /\ reader.calls >= CeilDivide(Cardinality(reader.first), EntriesPerCall) + 1
              => reader.ended
        /\ reader.ended => \A n \in reader.first : Count(reader.seen, n) >= 1

\* -------------------------------------------------------------- C15
\* The names of directory d, other than "." and "..", bound to a live inode
LiveEntries(d) ==
    {n \in DOMAIN Children(Get(Inodes, d)) \ {".", ".."} :
        LET c == Children(Get(Inodes, d))[n] IN
        c >= 0 /\ c < Len(Inodes) /\ ~Dead(Get(Inodes, c))}

\* C15: rmdir of a live directory that still holds an entry other than "." and
\* ".." replies ENOTEMPTY and changes nothing.
C15_RmdirNonEmptyRejected ==
    \A p \in LiveDirs : \A n \in DOMAIN Children(Get(Inodes, p)) \cap Names :
        LET ino == ChildInodeNumberWithName(Get(Inodes, p), n) IN
        (ino \in LiveDirs /\ ino # p /\ LiveEntries(ino) # {})
            => LET r == FuseRmdir(p, n) IN
               r.replies = <<"ENOTEMPTY">> /\ Unchanged(r)

\* -------------------------------------------------------------- C16
\* Directory d is as mkdir(p, n) leaves a new directory
FreshlyMade(I, p, n, d) ==
    /\ IsDirectory(Get(I, d))
    /\ Get(I, d).nlink = 2
    /\ Get(I, d).nlookup = 1
    /\ DOMAIN Children(Get(I, d)) = {".", ".."}
    /\ Children(Get(I, d))["."] = d
    /\ Children(Get(I, d))[".."] = p
    /\ ChildInodeNumberWithName(Get(I, p), n) = d

\* C16: mkdir(parent, name) on a live directory in which name is absent
\* succeeds; the new directory has hard-link count 2, lookup count 1, "."
\* bound to itself and ".." bound to parent; name is bound to it in parent;
\* and parent's hard-link count is one higher than before.
C16_MkdirContract ==
    \A p \in LiveDirs : \A n \in Names \ DOMAIN Children(Get(Inodes, p)) :
        LET r == FuseMkdir(p, n) IN
        /\ r.replies = <<"OK">>
        /\ r.entry >= 2 /\ r.entry < Len(r.inodes) /\ r.entry # p
        /\ FreshlyMade(r.inodes, p, n, r.entry)
        /\ Get(r.inodes, p).nlink = Get(Inodes, p).nlink + 1

\* -------------------------------------------------------------- C17
\* The (directory, name) pairs bound to inode i
NamesOf(i) ==
    {pn \in Slots \X Names :
        /\ IsDirectory(Get(Inodes, pn[1]))
        /\ pn[2] \in DOMAIN Children(Get(Inodes, pn[1]))
        /\ Children(Get(Inodes, pn[1]))[pn[2]] = i}

Files == {i \in Slots : IsFile(Get(Inodes, i))}

LiveSlots(I) == {i \in 0..(Len(I) - 1) : ~IsNull(Get(I, i))}

RECURSIVE SumUsedBlocks(_, _)
\* The sum of UsedBlocks over the inodes of I held in the slots of S
SumUsedBlocks(I, S) ==
    IF S = {} THEN 0
    ELSE LET i == CHOOSE j \in S : TRUE
         IN UsedBlocks(Get(I, i)) + SumUsedBlocks(I, S \ {i})

\* C18: the free-block counter equals the total blocks minus the sum of
\* UsedBlocks over the live inodes, and the free-inode counter equals the
\* total inodes minus the number of live inodes.
C18_CountersMatchUsage ==
    (Initialized /\ ~crashed) =>
        /\ m_stbuf.f_bfree = kTotalBlocks - SumUsedBlocks(Inodes, LiveSlots(Inodes))
        /\ m_stbuf.f_ffree = kTotalInodes - Cardinality(LiveSlots(Inodes))

\* -------------------------------------------------------------- C19
\* Slot 1 of table I holds the root directory with a positive hard-link count
RootHolds(I) == IsDirectory(Get(I, 1)) /\ ~HasNoLinks(Get(I, 1))

\* C19: the root directory (inode 1) is never deallocated and never becomes
\* unresolvable: in every state, and after any rename, unlink, rmdir or
\* forget from it, slot 1 holds the root directory with a positive
\* hard-link count.
C19_RootNeverDeallocated ==
    (Initialized /\ ~crashed) =>
        /\ RootHolds(Inodes)
        /\ \A parent \in InoArgs, name \in Names :
              /\ RootHolds(FuseUnlink(parent, name).inodes)
              /\ RootHolds(FuseRmdir(parent, name).inodes)
              /\ \A newparent \in InoArgs, newname \in Names :
                    RootHolds(FuseRename(parent, name, newparent, newname).inodes)
        /\ \A n \in ForgetArgs(1) : RootHolds(FuseForget(1, n).inodes)

\* -------------------------------------------------------------- C20
\* Inode i of table I has a positive hard-link count and no directory of I
\* has an entry for it
Orphan(I, i) ==
    /\ i \in LiveSlots(I)
    /\ ~HasNoLinks(Get(I, i))
    /\ \A d \in LiveSlots(I) :
          IsDirectory(Get(I, d)) =>
              \A n \in DOMAIN Children(Get(I, d)) : Children(Get(I, d))[n] # i

\* Result r of a callback on (p, n), where n was bound to e, registered no
\* inode, left the binding and e's hard-link count as they were, and left no
\* inode orphaned that was not already
NameKept(r, p, n, e) ==
    /\ Len(r.inodes) = Len(Inodes)
    /\ LiveSlots(r.inodes) = LiveSlots(Inodes)
    /\ r.deleted = DeletedInodes
    /\ ChildInodeNumberWithName(Get(r.inodes, p), n) = e
    /\ Get(r.inodes, e).nlink = Get(Inodes, e).nlink
    /\ \A i \in 2..(Len(r.inodes) - 1) : Orphan(r.inodes, i) => Orphan(Inodes, i)

\* C20: mknod, symlink and create on a name that is already bound in the
\* parent register no new inode, leave the existing binding and the existing
\* inode's hard-link count unchanged, and leave no inode with a positive
\* hard-link count that no directory entry references.
C20_ExistingNameTested ==
    \A p \in LiveDirs : \A n \in Names \cap DOMAIN Children(Get(Inodes, p)) :
        LET e == ChildInodeNumberWithName(Get(Inodes, p), n) IN
        (e \in LiveSlots(Inodes) /\ e >= 2) =>
            \A ow \in BOOLEAN :
                /\ \A mode \in {"S_IFREG", "S_IFDIR"} :
                      NameKept(FuseMknod(p, n, mode, ow), p, n, e)
                /\ NameKept(FuseSymlink(p, n, ow), p, n, e)
                /\ NameKept(FuseCreate(p, n, ow), p, n, e)

\* -------------------------------------------------------------- C21
\* The number a registration takes in the current state
NextNumber == IF DeletedInodes = <<>> THEN Len(Inodes) ELSE Head(DeletedInodes)

\* Result r registered one inode under NextNumber in FIFO order
TookNextNumber(r) ==
    /\ r.entry = NextNumber
    /\ ~IsNull(Get(r.inodes, NextNumber))
    /\ IF DeletedInodes = <<>>
       THEN Len(r.inodes) = Len(Inodes) + 1 /\ r.deleted = <<>>
       ELSE /\ Len(r.inodes) = Len(Inodes)
            /\ r.deleted = Tail(DeletedInodes)
            /\ IsNull(Get(Inodes, NextNumber))

\* C21: a registration returns the number released earliest when
\* DeletedInodes is non-empty and removes it from the queue, the table grows
\* by one slot only when the queue is empty, the number returned is never one
\* held by a live inode, and the queue changes only by a release appended at
\* its tail or by a registration taking its head.
C21_ReuseIsFifo ==
    /\ [](\A p \in LiveDirs : \A n \in Names \ DOMAIN Children(Get(Inodes, p)) :
            /\ TookNextNumber(FuseCreate(p, n, TRUE))
            /\ TookNextNumber(FuseSymlink(p, n, TRUE))
            /\ TookNextNumber(FuseMknod(p, n, "S_IFREG", TRUE))
            /\ TookNextNumber(FuseMknod(p, n, "S_IFDIR", TRUE))
            /\ TookNextNumber(FuseMkdir(p, n)))
    /\ [][/\ Initialized => Len(Inodes') \in {Len(Inodes), Len(Inodes) + 1}
          /\ (Initialized /\ Len(Inodes') = Len(Inodes) + 1) =>
                 (DeletedInodes = <<>> /\ DeletedInodes' = <<>>)
          /\ DeletedInodes' # DeletedInodes =>
                 IF Len(DeletedInodes') < Len(DeletedInodes)
                 THEN /\ DeletedInodes' = Tail(DeletedInodes)
                      /\ IsNull(Get(Inodes, Head(DeletedInodes)))
                      /\ ~IsNull(Get(Inodes', Head(DeletedInodes)))
                 ELSE \E i \in Slots :
                         /\ DeletedInodes' = Append(DeletedInodes, i)
                         /\ ~IsNull(Get(Inodes, i))
                         /\ IsNull(Get(Inodes', i))]_vars

\* two inodes were released, the one with the higher number first, and a
\* registration is still to come
C21_Witness ==
    /\ Len(DeletedInodes) = 2
    /\ DeletedInodes[1] > DeletedInodes[2]
    /\ RunningSlots

\* -------------------------------------------------------------- C22
\* C22: every live directory has a "." entry that maps to its own inode
\* number and a ".." entry that maps to the number of a live directory.
C22_DotEntries ==
    \A d \in LiveDirs :
        LET x == Get(Inodes, d) IN
        /\ ChildInodeNumberWithName(x, ".") = d
        /\ ChildInodeNumberWithName(x, "..") \in LiveDirs

\* -------------------------------------------------------------- C23
\* The names of directory d, other than "." and "..", bound to a directory
SubdirEntries(I, d) ==
    {n \in DOMAIN Children(Get(I, d)) \ {".", ".."} :
        LET c == Children(Get(I, d))[n] IN
        c \in LiveSlots(I) /\ IsDirectory(Get(I, c))}

\* C23: from the state right after init on, the hard-link count of every
\* live directory, the root included, equals 2 plus the number of its
\* entries, other than "." and "..", that refer to directories.
C23_DirLinkCount ==
    \A d \in LiveDirs :
        Get(Inodes, d).nlink = 2 + Cardinality(SubdirEntries(Inodes, d))

\* -------------------------------------------------------------- C24
\* The (directory, name) pairs of table I bound to inode number i
EntriesFor(I, i) ==
    {dn \in LiveSlots(I) \X LookupNames :
        /\ IsDirectory(Get(I, dn[1]))
        /\ dn[2] \in DOMAIN Children(Get(I, dn[1]))
        /\ Children(Get(I, dn[1]))[dn[2]] = i}

\* C24: the hard-link count of every file and symlink inode in the table
\* equals the number of directory entries, over all directories, bound to
\* its inode number.
C24_FileLinkCount ==
    \A i \in LiveSlots(Inodes) :
        Get(Inodes, i).type \in {"File", "SymLink"} =>
            Get(Inodes, i).nlink = Cardinality(EntriesFor(Inodes, i))

\* -------------------------------------------------------------- C25
\* C25: a table slot is empty if and only if its number occurs in
\* DeletedInodes, no number occurs in DeletedInodes more than once, and a
\* forget on a released number does not enqueue it again.
C25_TombstoneIffQueued ==
    /\ \A i \in Slots : IsNull(Get(Inodes, i)) <=> i \in QueuedSlots
    /\ QueuedSlots \subseteq Slots
    /\ \A i \in Slots : Count(DeletedInodes, i) <= 1
    /\ \A i \in Slots : IsNull(Get(Inodes, i)) =>
          \A n \in 1..2 : FuseForget(i, n).deleted = DeletedInodes

\* two inodes have been released, and both wait in the queue
C25_Witness ==
    /\ Len(DeletedInodes) = 2
    /\ \A k \in 1..2 : IsNull(Get(Inodes, DeletedInodes[k]))

\* -------------------------------------------------------------- C26
\* Slot i holds a file, directory or symlink whose hard-link count is zero
Unreachable(I, i) ==
    /\ Get(I, i).type \in {"File", "Directory", "SymLink"}
    /\ HasNoLinks(Get(I, i))

\* C26: once an inode's hard-link count has reached zero no callback raises
\* it above zero again: in every step such an inode keeps a count of zero or
\* is released.
C26_LifecycleOneWay ==
    [][\A i \in Slots :
          Unreachable(Inodes, i) =>
              (IsNull(Get(Inodes', i)) \/ Unreachable(Inodes', i))]_vars

\* -------------------------------------------------------------- C27
\* C27: after init slot 0 holds the special placeholder, number 0 is never
\* released into DeletedInodes, and the next registration of a file,
\* directory or symlink does not take number 0.
C27_ZeroReserved ==
    Initialized =>
        /\ Get(Inodes, 0).type = "Special"
        /\ 0 \notin QueuedSlots
        /\ NextNumber # 0

\* -------------------------------------------------------------- C28
\* Both threads of the pair have sent their reply
BothDone == Registering /\ ~crashed /\ \A t \in Threads : pending.th[t].pc = "done"

\* Two registrations, one after the other, from the state the pair started in
FirstRegistered ==
    RegisterInode(pending.start.inodes, pending.start.deleted, pending.start.stbuf,
                  NewInode("File"), 1)

SecondRegistered ==
    RegisterInode(FirstRegistered.inodes, FirstRegistered.deleted,
                  FirstRegistered.stbuf, NewInode("File"), 1)

\* C28: two registering callbacks that run concurrently obtain distinct inode
\* numbers, neither overwrites the other's table slot, and the table,
\* DeletedInodes and the counters end as some sequential order of the two
\* leaves them.
C28_RegistrationsSerialized ==
    BothDone =>
        /\ pending.th[1].ino # pending.th[2].ino
        /\ \A t \in Threads : pending.th[t].at = pending.th[t].ino
        /\ {pending.th[1].ino, pending.th[2].ino} =
              {FirstRegistered.ino, SecondRegistered.ino}
        /\ Len(Inodes) = Len(SecondRegistered.inodes)
        /\ DeletedInodes = SecondRegistered.deleted
        /\ m_stbuf = SecondRegistered.stbuf

\* -------------------------------------------------------------- C29
\* C29: every readdir call terminates and sends its reply: the fill loop
\* advances the cursor or exits on each iteration, also when an entry of the
\* directory refers to an inode number whose table slot is empty.
C29_ReadDirCallEnds ==
    \A d \in Slots : \A size \in 1..MaxReadDirSize :
        LET r == FuseReadDir(d, size, 0, "end") IN
        Len(r.replies) = 1 /\ r.ub = "none"

\* -------------------------------------------------------------- C30
\* The inode numbers that the entries of the directories in table I refer to
Referenced(I) ==
    UNION {{Children(Get(I, d))[n] : n \in DOMAIN Children(Get(I, d))} :
              d \in {e \in LiveSlots(I) : IsDirectory(Get(I, e))}}

\* C30: no dangling directory entries: every entry of every directory in
\* the table refers to a slot that holds an inode, and no step releases an
\* inode that an entry still refers to afterwards.
C30_NoDanglingEntries ==
    /\ [](Referenced(Inodes) \subseteq LiveSlots(Inodes))
    /\ [][\A i \in LiveSlots(Inodes) :
             IsNull(Get(Inodes', i)) => i \notin Referenced(Inodes')]_vars

\* -------------------------------------------------------------- C31
\* The inode numbers on which a callback, delivered in the current state,
\* calls RemoveHardLink: unlink on the inode the name is bound to (line 718),
\* rmdir on the parent (line 787), rename on Inodes[parent] when newname is
\* bound (line 960).  The loop of rmdir (792-794) tests the count itself.
RemoveHardLinkTargets ==
    UNION {
        {ChildInodeNumberWithName(Get(Inodes, pn[1]), pn[2]) :
            pn \in {qn \in Slots \X Names :
                       LET r == FuseUnlink(qn[1], qn[2]) IN
                       r.replies = <<"OK">> \/ r.ub = "segv"}},
        {pn[1] : pn \in {qn \in Slots \X Names :
                            FuseRmdir(qn[1], qn[2]).replies = <<"OK">>}},
        {RenameExistingInode(a[1], ChildInodeNumberWithName(Get(Inodes, a[3]), a[4])) :
            a \in {b \in Slots \X Names \X Slots \X Names :
                      /\ FuseRename(b[1], b[2], b[3], b[4]).replies = <<"OK">>
                      /\ ChildInodeNumberWithName(Get(Inodes, b[3]), b[4]) # INO_NOTFOUND}}}

\* C31: a hard-link count is never decremented below zero: unlink, rmdir and
\* rename call RemoveHardLink only on an inode whose table slot is not empty
\* and whose hard-link count is at least 1.
C31_NoDecrementBelowZero ==
    \A i \in RemoveHardLinkTargets :
        /\ i \in LiveSlots(Inodes)
        /\ Get(Inodes, i).nlink >= 1

====
